---------------------------- MODULE Spec2Model ----------------------------
(***************************************************************************)
(* A model of the memory segments (package mem, seg.go), the disassembler  *)
(* entry point (package rv, RV.Disassemble) and the objdump loader and     *)
(* disassembler driver (package main: loadDump, main) of deadsy/riscv.     *)
(*                                                                         *)
(* Representation.                                                         *)
(*  - An address is a Go uint.  Its width is scaled down to AdrBits bits;  *)
(*    every address computation is taken modulo AdrMod = 2^AdrBits, as the *)
(*    machine takes it modulo 2^64.                                        *)
(*  - A data value of n bytes (uint8 .. uint64) is the sequence of its n   *)
(*    base-256 digits, most significant digit first: 0x00000013 is         *)
(*    <<0,0,0,19>>.  The backing array of a Chunk is a sequence of bytes   *)
(*    in address order, so storing a value little-endian reverses it.      *)
(*  - A Go run-time panic (index or slice bound out of range) is the       *)
(*    outcome panic = TRUE of an operation; the program has then aborted   *)
(*    and takes no further step.                                           *)
(***************************************************************************)
EXTENDS Integers, Sequences, FiniteSets, TLC

VARIABLES
    seg,      \* the segment under test / the memory of the loader and driver
    op,       \* the last segment operation: its inputs and what it returned
    prev,     \* the operation before it
    pre,      \* the backing bytes before the last operation
    nops,     \* number of operations done
    isa,      \* m.isa.instruction: the active instruction table
    adr,      \* main's adr: the driver's scan address
    da,       \* the Disassembly of the driver's last Disassemble call
    pc,       \* where main / loadDump stands
    file,     \* the dump file's contents (a sequence of characters)
    symbols,  \* Memory's symbol table  (address -> name)
    disasm,   \* Memory's reference-disassembly map (address -> text)
    err       \* what loadDump returned: "" (nil) or an error

vars == <<seg, op, prev, pre, nops, isa, adr, da, pc, file, symbols, disasm, err>>

-----------------------------------------------------------------------------
(* Bounds of the model *)

\* width of an address (a Go uint) in bits, scaled down from 64
AdrBits == 6

\* number of segment operations explored from a freshly built segment
MaxOps == 2

RECURSIVE Pow2(_)
Pow2(n) == IF n = 0 THEN 1 ELSE 2 * Pow2(n - 1)

AdrMod == Pow2(AdrBits)

\* unsigned wrap-around arithmetic on addresses
AddU(a, b) == (a + b) % AdrMod
SubU(a, b) == (a - b + AdrMod) % AdrMod

-----------------------------------------------------------------------------
(* Bit operations on naturals: Go's & and | *)

RECURSIVE BitAnd(_, _)
BitAnd(a, b) ==
    IF a = 0 \/ b = 0 THEN 0
    ELSE ((a % 2) * (b % 2)) + 2 * BitAnd(a \div 2, b \div 2)

RECURSIVE BitOr(_, _)
BitOr(a, b) ==
    IF a = 0 THEN b
    ELSE IF b = 0 THEN a
    ELSE (IF a % 2 = 1 \/ b % 2 = 1 THEN 1 ELSE 0) + 2 * BitOr(a \div 2, b \div 2)

-----------------------------------------------------------------------------
(* Exception and Attribute bit masks *)

ExAlign == 1
ExRead  == 2
ExWrite == 4
ExEmpty == 8
ExExec  == 16

AttrR == 1
AttrW == 2
AttrX == 4
AttrRW  == BitOr(AttrR, AttrW)
AttrRX  == BitOr(AttrR, AttrX)
AttrRWX == BitOr(BitOr(AttrR, AttrW), AttrX)

Attributes == 0..7

-----------------------------------------------------------------------------
(* memory access exceptions *)

wrExceptionReadBit(a, attr, align) ==
    LET e1 == IF BitAnd(attr, AttrR) = 0 THEN ExWrite ELSE 0
        e2 == IF BitAnd(a, align - 1) # 0 THEN BitOr(e1, ExAlign) ELSE e1
    IN  e2

wrException(a, attr, align) ==
    LET e1 == IF BitAnd(attr, AttrW) = 0 THEN ExWrite ELSE 0
        e2 == IF BitAnd(a, align - 1) # 0 THEN BitOr(e1, ExAlign) ELSE e1
    IN  e2

rdException(a, attr, align) ==
    LET e1 == IF BitAnd(attr, AttrR) = 0 THEN ExRead ELSE 0
        e2 == IF BitAnd(a, align - 1) # 0 THEN BitOr(e1, ExAlign) ELSE e1
    IN  e2

rdInsExceptionAlign4(a, attr) ==
    LET ex == rdException(a, attr, 4)
    IN  IF BitAnd(attr, AttrX) = 0 THEN BitOr(ex, ExExec) ELSE ex

rdInsException(a, attr) ==
    LET ex == rdException(a, attr, 2)
    IN  IF BitAnd(attr, AttrX) = 0 THEN BitOr(ex, ExExec) ELSE ex

-----------------------------------------------------------------------------
(* encoding/binary.LittleEndian on a byte slice b (1-based here) *)

\* Uint16/32/64(b): the value of the first n bytes of b, least significant first
LittleEndianUint(b, n) == [i \in 1..n |-> b[n - i + 1]]

\* PutUint16/32/64(b, v): b with its first n bytes set to v, least significant first
PutUint(b, n, v) ==
    [i \in 1..Len(b) |-> IF i <= n THEN v[n - i + 1] ELSE b[i]]

\* math.MaxUint8 .. math.MaxUint64 as a value of n bytes
MaxUint(n) == [i \in 1..n |-> 255]

-----------------------------------------------------------------------------
(* What an operation returns.  val: the value read (<<>> for a write or a  *)
(* panic); ex: the Exception; mem: the backing bytes afterwards.           *)

Ret(val, ex, mem) == [panic |-> FALSE, val |-> val, ex |-> ex, mem |-> mem]
Panic(mem)        == [panic |-> TRUE,  val |-> <<>>, ex |-> 0, mem |-> mem]

-----------------------------------------------------------------------------
(* Chunk *)

NewChunk(start, size, attr) ==
    [kind  |-> "Chunk",
     attr  |-> attr,
     start |-> start,
     end   |-> SubU(AddU(start, size), 1),
     mem   |-> [i \in 1..size |-> 255]]

\* m.mem[idx:] panics when idx > len(m.mem); Uint16/32/64 and PutUint16/32/64
\* panic (before touching anything) when the slice is shorter than n bytes
SliceOk(m, idx, n) == idx <= Len(m.mem) /\ Len(m.mem) - idx >= n

ChunkRdN(m, a, n, ex) ==
    LET idx == SubU(a, m.start) IN
    IF ~SliceOk(m, idx, n) THEN Panic(m.mem)
    ELSE Ret(LittleEndianUint(SubSeq(m.mem, idx + 1, Len(m.mem)), n), ex, m.mem)

ChunkWrNSkipOnFault(m, a, n, val, ex) ==
    LET idx == SubU(a, m.start) IN
    IF ~SliceOk(m, idx, n) THEN Panic(m.mem)
    ELSE IF ex # 0 THEN Ret(<<>>, ex, m.mem)
    ELSE Ret(<<>>, ex,
             SubSeq(m.mem, 1, idx)
                 \o PutUint(SubSeq(m.mem, idx + 1, Len(m.mem)), n, val))

ChunkWrN(m, a, n, val, ex) ==
    LET idx == SubU(a, m.start) IN
    IF ~SliceOk(m, idx, n) THEN Panic(m.mem)
    ELSE Ret(<<>>, ex,
             SubSeq(m.mem, 1, idx)
                 \o PutUint(SubSeq(m.mem, idx + 1, Len(m.mem)), n, val))

ChunkIn(m, a, size) ==
    LET end == SubU(AddU(a, size), 1)
    IN  (a >= m.start) /\ (end <= m.end)

ChunkRdIns(m, a) == ChunkRdN(m, a, 4, rdInsException(a, m.attr))
ChunkRd64(m, a)  == ChunkRdN(m, a, 8, rdException(a, m.attr, 8))
ChunkRd32(m, a)  == ChunkRdN(m, a, 4, rdException(a, m.attr, 4))
ChunkRd16(m, a)  == ChunkRdN(m, a, 2, rdException(a, m.attr, 2))

\* m.mem[adr-m.start] panics when the index is not below len(m.mem)
ChunkRd8(m, a) ==
    LET idx == SubU(a, m.start) IN
    IF idx >= Len(m.mem) THEN Panic(m.mem)
    ELSE Ret(<<m.mem[idx + 1]>>, rdException(a, m.attr, 1), m.mem)

ChunkWr64(m, a, val) == ChunkWrN(m, a, 8, val, wrException(a, m.attr, 8))
ChunkWr32(m, a, val) == ChunkWrN(m, a, 4, val, wrException(a, m.attr, 4))
ChunkWr16(m, a, val) == ChunkWrN(m, a, 2, val, wrException(a, m.attr, 2))

ChunkWr8(m, a, val) ==
    LET idx == SubU(a, m.start) IN
    IF idx >= Len(m.mem) THEN Panic(m.mem)
    ELSE Ret(<<>>, wrException(a, m.attr, 1),
             [m.mem EXCEPT ![idx + 1] = val[1]])

-----------------------------------------------------------------------------
(* Empty *)

NewEmpty(start, size, attr) ==
    [kind  |-> "Empty",
     attr  |-> attr,
     start |-> start,
     end   |-> SubU(AddU(start, size), 1),
     mem   |-> <<>>]

EmptyIn(m, a, size) ==
    LET end == SubU(AddU(a, size), 1)
    IN  (a >= m.start) /\ (end <= m.end)

EmptyRdIns(m, a) == Ret(MaxUint(4), BitOr(rdInsException(a, m.attr), ExEmpty), m.mem)
EmptyRd64(m, a)  == Ret(MaxUint(8), BitOr(rdException(a, m.attr, 8), ExEmpty), m.mem)
EmptyRd32(m, a)  == Ret(MaxUint(4), BitOr(rdException(a, m.attr, 4), ExEmpty), m.mem)
EmptyRd16(m, a)  == Ret(MaxUint(2), BitOr(rdException(a, m.attr, 2), ExEmpty), m.mem)
EmptyRd8(m, a)   == Ret(MaxUint(1), BitOr(rdException(a, m.attr, 1), ExEmpty), m.mem)

EmptyWr64(m, a, val) == Ret(<<>>, BitOr(wrException(a, m.attr, 8), ExEmpty), m.mem)
EmptyWr32(m, a, val) == Ret(<<>>, BitOr(wrException(a, m.attr, 4), ExEmpty), m.mem)
EmptyWr16(m, a, val) == Ret(<<>>, BitOr(wrException(a, m.attr, 2), ExEmpty), m.mem)
EmptyWr8(m, a, val)  == Ret(<<>>, BitOr(wrException(a, m.attr, 1), ExEmpty), m.mem)

-----------------------------------------------------------------------------
(* The Segment interface: a call dispatches on the variant *)

SegRd(name, m, a) ==
    IF m.kind = "Chunk"
    THEN CASE name = "RdIns" -> ChunkRdIns(m, a)
           [] name = "Rd64"  -> ChunkRd64(m, a)
           [] name = "Rd32"  -> ChunkRd32(m, a)
           [] name = "Rd16"  -> ChunkRd16(m, a)
           [] name = "Rd8"   -> ChunkRd8(m, a)
    ELSE CASE name = "RdIns" -> EmptyRdIns(m, a)
           [] name = "Rd64"  -> EmptyRd64(m, a)
           [] name = "Rd32"  -> EmptyRd32(m, a)
           [] name = "Rd16"  -> EmptyRd16(m, a)
           [] name = "Rd8"   -> EmptyRd8(m, a)

SegWr(name, m, a, val) ==
    IF m.kind = "Chunk"
    THEN CASE name = "Wr64" -> ChunkWr64(m, a, val)
           [] name = "Wr32" -> ChunkWr32(m, a, val)
           [] name = "Wr16" -> ChunkWr16(m, a, val)
           [] name = "Wr8"  -> ChunkWr8(m, a, val)
    ELSE CASE name = "Wr64" -> EmptyWr64(m, a, val)
           [] name = "Wr32" -> EmptyWr32(m, a, val)
           [] name = "Wr16" -> EmptyWr16(m, a, val)
           [] name = "Wr8"  -> EmptyWr8(m, a, val)

SegIn(m, a, size) ==
    IF m.kind = "Chunk" THEN ChunkIn(m, a, size) ELSE EmptyIn(m, a, size)

-----------------------------------------------------------------------------
(* Specification Spec: a segment is built, then read and written *)

\* (start, size) of the segments built: the chunk of size 0x20 at address 0
\* and a chunk that has addresses below its start
Layouts == { <<0, 32>>, <<8, 16>> }

\* addresses tried on a segment: below start, the four alignments at start,
\* the last bytes of the segment, and above end
Adrs(m) ==
    { SubU(m.start, 1), m.start, AddU(m.start, 1), AddU(m.start, 2),
      AddU(m.start, 4), SubU(m.end, 1), AddU(m.end, 1) }

\* values written, by width in bytes
WrVals(n) ==
    CASE n = 1 -> { <<19>> }
      [] n = 2 -> { <<1, 2>> }
      [] n = 4 -> { <<0, 0, 0, 19>> }
      [] n = 8 -> { <<1, 2, 3, 4, 5, 6, 7, 8>> }

\* width in bytes of a data access; RdIns reads 4 bytes
Width(name) ==
    CASE name \in {"Rd8", "Wr8"}   -> 1
      [] name \in {"Rd16", "Wr16"} -> 2
      [] name \in {"Rd32", "Wr32", "RdIns"} -> 4
      [] name \in {"Rd64", "Wr64"} -> 8

NoOp == [name |-> "none", adr |-> 0, val |-> <<>>, ret |-> <<>>,
         ex |-> 0, panic |-> FALSE]

NoDa == [Dump |-> <<>>, Symbol |-> <<>>, Instruction |-> "", Comment |-> "",
         N |-> 0, ins |-> <<>>, adr |-> 0, calls |-> <<>>]

\* the variables a specification does not use keep these values
IdleDa == isa = <<>> /\ adr = 0 /\ da = NoDa
NoFile   == [exists |-> FALSE, data |-> <<>>]
NoErr    == [nil |-> TRUE, line |-> 0, msg |-> ""]
NoSymbols == [nil |-> TRUE, map |-> <<>>]
IdleLoad == file = NoFile /\ symbols = NoSymbols /\ disasm = <<>> /\ err = NoErr

Init ==
    /\ \E l \in Layouts, attr \in Attributes :
           seg \in { NewChunk(l[1], l[2], attr), NewEmpty(l[1], l[2], attr) }
    /\ op = NoOp /\ prev = NoOp /\ nops = 0
    /\ pre = seg.mem
    /\ pc = "seg"
    /\ IdleDa /\ IdleLoad

Call(name, a, val, r) ==
    /\ seg'  = [seg EXCEPT !.mem = r.mem]
    /\ op'   = [name |-> name, adr |-> a, val |-> val, ret |-> r.val,
                ex |-> r.ex, panic |-> r.panic]
    /\ prev' = op
    /\ pre'  = seg.mem
    /\ nops' = nops + 1
    /\ UNCHANGED <<isa, adr, da, pc, file, symbols, disasm, err>>

Running == pc = "seg" /\ nops < MaxOps /\ ~op.panic

DoRd(name) == Running /\ \E a \in Adrs(seg) : Call(name, a, <<>>, SegRd(name, seg, a))

DoWr(name) ==
    Running /\ \E a \in Adrs(seg), v \in WrVals(Width(name)) :
                   Call(name, a, v, SegWr(name, seg, a, v))

RdIns == DoRd("RdIns")
Rd64  == DoRd("Rd64")
Rd32  == DoRd("Rd32")
Rd16  == DoRd("Rd16")
Rd8   == DoRd("Rd8")
Wr64  == DoWr("Wr64")
Wr32  == DoWr("Wr32")
Wr16  == DoWr("Wr16")
Wr8   == DoWr("Wr8")

Next == RdIns \/ Rd64 \/ Rd32 \/ Rd16 \/ Rd8 \/ Wr64 \/ Wr32 \/ Wr16 \/ Wr8

Spec == Init /\ [][Next]_vars

-----------------------------------------------------------------------------
(* Specification SpecIn: a segment is built, then asked In(adr, size) *)

\* the (start, size) a segment is built with and the (adr, size) it is asked
\* about: zero, small, and values whose sum wraps around the address width
InStarts == {0, 8, AdrMod - 1}
InSizes  == {0, 1, 2, 16}
InAdrs   == {0, 8, 9, 23, 24, AdrMod - 1}
InSpans  == {0, 1, 2, 4}

InitIn ==
    /\ \E start \in InStarts, size \in InSizes :
           seg \in { NewChunk(start, size, AttrRWX), NewEmpty(start, size, AttrRWX) }
    /\ op = NoOp /\ prev = NoOp /\ nops = 0
    /\ pre = seg.mem
    /\ pc = "in"
    /\ IdleDa /\ IdleLoad

In ==
    /\ pc = "in"
    /\ \E a \in InAdrs, size \in InSpans :
           op' = [name |-> "In", adr |-> a, val |-> <<size>>,
                  ret |-> <<SegIn(seg, a, size)>>, ex |-> 0, panic |-> FALSE]
    /\ UNCHANGED <<seg, prev, pre, nops, isa, adr, da, pc, file, symbols, disasm, err>>

SpecIn == InitIn /\ [][In]_vars

-----------------------------------------------------------------------------
(* Memory: the address space the loader fills and the disassembler reads.  *)
(* It holds one chunk (seg), a symbol table and a reference-disassembly    *)
(* map.  An access goes to the segment when it contains the whole span and *)
(* otherwise yields the sentinel and an Empty fault.                       *)

MemRead32(m, a) ==
    IF SegIn(m, a, 4) THEN SegRd("Rd32", m, a)
    ELSE Ret(MaxUint(4), BitOr(rdException(a, 0, 4), ExEmpty), m.mem)

MemWr(name, m, a, val) ==
    IF SegIn(m, a, Width(name)) THEN SegWr(name, m, a, val)
    ELSE Ret(<<>>, BitOr(wrException(a, 0, Width(name)), ExEmpty), m.mem)

\* a Go map with string values (sequences of characters): a missing key
\* reads as the empty string
MapGet(map, k) == IF k \in DOMAIN map THEN map[k] ELSE <<>>
MapPut(map, k, v) == [x \in (DOMAIN map) \cup {k} |-> IF x = k THEN v ELSE map[x]]
EmptyMap == <<>>

AddSymbol(st, a, name) == [nil |-> FALSE, map |-> MapPut(st.map, a, name)]
AddDisassembly(map, a, text) == MapPut(map, a, text)

-----------------------------------------------------------------------------
(* RISC-V Disassembler *)

\* ins & mask on 32-bit words, byte by byte
WordAnd(x, y) == [i \in 1..4 |-> BitAnd(x[i], y[i])]

daNone(mneumonic, a, ins) == <<mneumonic, "TODO">>

\* ii.decode.da: the decode function of an entry
DecodeDa(decode, mneumonic, a, ins) ==
    CASE decode = "daNone" -> daNone(mneumonic, a, ins)

HexChars == <<"0", "1", "2", "3", "4", "5", "6", "7",
              "8", "9", "a", "b", "c", "d", "e", "f">>

\* %0kx of a number
RECURSIVE HexOf(_, _)
HexOf(n, k) ==
    IF k = 0 THEN <<>> ELSE HexOf(n \div 16, k - 1) \o <<HexChars[(n % 16) + 1]>>

\* %08x of a 32-bit word
HexOfWord(w) == HexOf(w[1], 2) \o HexOf(w[2], 2) \o HexOf(w[3], 2) \o HexOf(w[4], 2)

daDump(a, ins) == HexOf(a, 8) \o <<":", " ">> \o HexOfWord(ins)

\* st: [nil |-> BOOLEAN, map |-> address -> name]
daSymbol(a, st) == IF ~st.nil THEN MapGet(st.map, a) ELSE ""

daInstruction(a, ins) == <<"", "">>

\* unsafe.Sizeof(ins) of a uint32
SizeofIns == 4

\* the loop over m.isa.instruction from entry i on; calls lists the decode
\* functions invoked: entry index, mneumonic, address, word
RECURSIVE ScanNoBreak(_, _, _, _, _)
ScanNoBreak(tbl, i, a, ins, acc) ==
    IF i > Len(tbl) THEN acc
    ELSE IF WordAnd(ins, tbl[i].mask) = tbl[i].val
         THEN LET r == DecodeDa(tbl[i].decode, tbl[i].mneumonic, a, ins)
              IN  ScanNoBreak(tbl, i + 1, a, ins,
                     [instruction |-> r[1], comment |-> r[2],
                      calls |-> Append(acc.calls,
                                   [i |-> i, mneumonic |-> tbl[i].mneumonic,
                                    adr |-> a, ins |-> ins])])
         ELSE ScanNoBreak(tbl, i + 1, a, ins, acc)

RECURSIVE Scan(_, _, _, _, _)
Scan(tbl, i, a, ins, acc) ==
    IF i > Len(tbl) THEN acc
    ELSE IF WordAnd(ins, tbl[i].mask) = tbl[i].val
         THEN LET r == DecodeDa(tbl[i].decode, tbl[i].mneumonic, a, ins)
              IN  [instruction |-> r[1], comment |-> r[2],
                   calls |-> Append(acc.calls,
                                [i |-> i, mneumonic |-> tbl[i].mneumonic,
                                 adr |-> a, ins |-> ins])]
         ELSE Scan(tbl, i + 1, a, ins, acc)

\* the instruction table is scanned from its first entry
ScanLast(tbl, a, ins) ==
    ScanNoBreak(tbl, 1, a, ins, [instruction |-> "", comment |-> "", calls |-> <<>>])

ScanTable(tbl, a, ins) ==
    Scan(tbl, 1, a, ins, [instruction |-> "", comment |-> "", calls |-> <<>>])

\* Disassemble a RISC-V instruction at the address; rd is what Mem.Read32 gave
Disassemble(tbl, rd, a, st) ==
    LET ins == rd.val
        r   == ScanTable(tbl, a, ins)
    IN  [Dump        |-> daDump(a, ins),
         Symbol      |-> daSymbol(a, st),
         Instruction |-> r.instruction,
         Comment     |-> r.comment,
         N           |-> SizeofIns,
         ins |-> ins, adr |-> a, calls |-> r.calls]

-----------------------------------------------------------------------------
(* Specification SpecDa: main's disassembly loop over a loaded memory *)

\* number of entries of an instruction table
MaxTable == 2

\* number of instructions of a loaded program
MaxProg == 2

Entry(mask, val, mneumonic) ==
    [mask |-> mask, val |-> val, mneumonic |-> mneumonic, decode |-> "daNone"]

\* entries a table is made of: two 32-bit and two 16-bit encodings whose
\* patterns overlap pairwise, and one that overlaps none
Entries ==
    { Entry(<<0, 0, 112, 127>>,     <<0, 0, 0, 19>>, "addi"),
      Entry(<<255, 255, 255, 255>>, <<0, 0, 0, 19>>, "nop"),
      Entry(<<0, 0, 224, 3>>,       <<0, 0, 0, 1>>,  "c.addi"),
      Entry(<<0, 0, 255, 255>>,     <<0, 0, 0, 1>>,  "c.nop"),
      Entry(<<0, 0, 0, 127>>,       <<0, 0, 0, 55>>, "lui") }

\* tables: sequences of distinct entries
Tables ==
    UNION { { t \in [1..n -> Entries] : \A i, j \in 1..n : i # j => t[i] # t[j] }
            : n \in 1..MaxTable }

\* instruction encodings as stored (least significant byte first):
\* addi x0,x0,0; lui x1,0; c.nop; addi x1,x0,1
Encodings == { <<19, 0, 0, 0>>, <<183, 0, 0, 0>>, <<1, 0>>, <<147, 0, 16, 0>> }

RECURSIVE Flatten(_)
Flatten(ss) == IF ss = <<>> THEN <<>> ELSE Head(ss) \o Flatten(Tail(ss))

Programs == { Flatten(p) : p \in UNION { [1..n -> Encodings] : n \in 0..MaxProg } }

\* the chunk at 0 holding program p; the bytes after it are as NewChunk left them
Loaded(p) ==
    LET m == NewChunk(0, 4 * (MaxProg + 1), AttrRX)
    IN  [m EXCEPT !.mem = [i \in 1..Len(m.mem) |-> IF i <= Len(p) THEN p[i] ELSE m.mem[i]]]

InitDa ==
    /\ isa \in Tables
    /\ seg \in { Loaded(p) : p \in Programs }
    /\ symbols \in { NoSymbols, AddSymbol(NoSymbols, 0, <<"m">>) }
    /\ disasm = AddDisassembly(EmptyMap, 0, <<"n", "o", "p">>)
    /\ adr = 0 /\ da = NoDa
    /\ pc = "scan"
    /\ op = NoOp /\ prev = NoOp /\ pre = seg.mem /\ nops = 0
    /\ file = NoFile /\ err = NoErr

\* one turn of main's loop: disassemble at adr, stop on "?", else advance
\* (da.Assembly and da.Length of the loop are the Disassembly's Instruction and N)
Driver ==
    /\ pc = "scan"
    /\ LET rd == MemRead32(seg, adr) IN
       IF rd.panic
       THEN pc' = "panic" /\ UNCHANGED <<da, adr>>
       ELSE LET d == Disassemble(isa, rd, adr, symbols) IN
            /\ da' = d
            /\ IF d.Instruction = "?"
               THEN pc' = "exit" /\ adr' = adr
               ELSE pc' = "scan" /\ adr' = AddU(adr, d.N)
    /\ UNCHANGED <<seg, op, prev, pre, nops, isa, file, symbols, disasm, err>>

SpecDa == InitDa /\ [][Driver]_vars

-----------------------------------------------------------------------------
(* Go's strings and strconv functions on sequences of characters *)

\* strings.Split(s, "\n")
RECURSIVE SplitLines(_, _, _)
SplitLines(s, cur, out) ==
    IF s = <<>> THEN Append(out, cur)
    ELSE IF Head(s) = "\n" THEN SplitLines(Tail(s), <<>>, Append(out, cur))
    ELSE SplitLines(Tail(s), Append(cur, Head(s)), out)

Split(s) == SplitLines(s, <<>>, <<>>)

WhiteSpace == {" ", "\t", "\n", "\r"}

\* strings.Fields(s): the maximal runs of non-space characters
RECURSIVE FieldsFrom(_, _, _)
FieldsFrom(s, cur, out) ==
    IF s = <<>> THEN (IF cur = <<>> THEN out ELSE Append(out, cur))
    ELSE IF Head(s) \in WhiteSpace
         THEN FieldsFrom(Tail(s), <<>>, IF cur = <<>> THEN out ELSE Append(out, cur))
    ELSE FieldsFrom(Tail(s), Append(cur, Head(s)), out)

Fields(s) == FieldsFrom(s, <<>>, <<>>)

\* strings.Trim(s, cutset)
RECURSIVE TrimLeft(_, _)
TrimLeft(s, cutset) ==
    IF s # <<>> /\ Head(s) \in cutset THEN TrimLeft(Tail(s), cutset) ELSE s

RECURSIVE TrimRight(_, _)
TrimRight(s, cutset) ==
    IF s # <<>> /\ s[Len(s)] \in cutset
    THEN TrimRight(SubSeq(s, 1, Len(s) - 1), cutset) ELSE s

Trim(s, cutset) == TrimRight(TrimLeft(s, cutset), cutset)

\* strings.Join(ss, " ")
RECURSIVE Join(_)
Join(ss) ==
    IF ss = <<>> THEN <<>>
    ELSE IF Len(ss) = 1 THEN ss[1]
    ELSE ss[1] \o <<" ">> \o Join(Tail(ss))

\* the value of a hexadecimal digit, -1 for any other character
HexVal(c) ==
    CASE c = "0" -> 0  [] c = "1" -> 1  [] c = "2" -> 2  [] c = "3" -> 3
      [] c = "4" -> 4  [] c = "5" -> 5  [] c = "6" -> 6  [] c = "7" -> 7
      [] c = "8" -> 8  [] c = "9" -> 9
      [] c \in {"a", "A"} -> 10  [] c \in {"b", "B"} -> 11
      [] c \in {"c", "C"} -> 12  [] c \in {"d", "D"} -> 13
      [] c \in {"e", "E"} -> 14  [] c \in {"f", "F"} -> 15
      [] OTHER -> -1

RECURSIVE StripZeros(_)
StripZeros(d) == IF d # <<>> /\ Head(d) = 0 THEN StripZeros(Tail(d)) ELSE d

\* strconv.ParseUint(s, 16, bitSize): the hex digits of the value, most
\* significant first and without leading zeros, or an error: a syntax error
\* for an empty string or a character that is no hex digit, a range error
\* for a value of more than bitSize bits
ParseUint(s, bitSize) ==
    LET d == [i \in 1..Len(s) |-> HexVal(s[i])] IN
    IF s = <<>> \/ \E i \in 1..Len(s) : d[i] < 0
    THEN [ok |-> FALSE, msg |-> "invalid syntax", digits |-> <<>>]
    ELSE IF 4 * Len(StripZeros(d)) > bitSize
    THEN [ok |-> FALSE, msg |-> "value out of range", digits |-> <<>>]
    ELSE [ok |-> TRUE, msg |-> "", digits |-> StripZeros(d)]

\* uint32(adr) of a parsed address, in the address width of the model
RECURSIVE ToAdr(_, _)
ToAdr(d, acc) == IF d = <<>> THEN acc ELSE ToAdr(Tail(d), (acc * 16 + Head(d)) % AdrMod)

\* uint16(ins), uint32(ins) of a parsed word: its n bytes, most significant first
ToUint(d, n) ==
    LET pad == [i \in 1..(2 * n - Len(d)) |-> 0] \o d
    IN  [i \in 1..n |-> 16 * pad[2 * i - 1] + pad[2 * i]]

-----------------------------------------------------------------------------
(* loadDump loads an objdump output file to memory *)

\* the reference disassembly: the fields from the third on, up to the first
\* that starts with # or <
RECURSIVE RefFields(_, _, _)
RefFields(field, j, acc) ==
    IF j > Len(field) THEN acc
    ELSE IF field[j][1] \in {"#", "<"} THEN acc
    ELSE RefFields(field, j + 1, Append(acc, field[j]))

Errorf(i, msg) == [nil |-> FALSE, line |-> i, msg |-> msg]

\* the body of the loop for line i (1-based, as the messages count lines);
\* st: [mem, symbols, disasm].  Gives [st, err].
LoadLine(m, st, line, i) ==
    LET field == Fields(line)
        n     == Len(field)
    IN
    IF n <= 1 THEN [st |-> st, err |-> NoErr]
    ELSE
    LET pa == ParseUint(Trim(field[1], {":"}), 32) IN
    IF ~pa.ok THEN [st |-> st, err |-> Errorf(i, pa.msg)]
    ELSE
    LET a  == ToAdr(pa.digits, 0)
        s1 == IF n = 2
              THEN [st EXCEPT !.symbols = AddSymbol(st.symbols, a, Trim(field[2], {"<", ">", ":"}))]
              ELSE st
    IN
    IF n = 2 THEN [st |-> s1, err |-> NoErr]
    ELSE
    LET insLength == Len(field[2])
        bits == IF insLength = 4 THEN 16 ELSE 32
        pi   == ParseUint(field[2], bits)
    IN
    IF insLength # 4 /\ insLength # 8
    THEN [st |-> s1, err |-> Errorf(i, "unrecognised instruction length")]
    ELSE IF ~pi.ok THEN [st |-> s1, err |-> Errorf(i, pi.msg)]
    ELSE
    LET name == IF insLength = 4 THEN "Wr16" ELSE "Wr32"
        w    == MemWr(name, [m EXCEPT !.mem = s1.mem], a, ToUint(pi.digits, bits \div 8))
        s2   == [s1 EXCEPT !.mem = w.mem]
        s3   == [s2 EXCEPT !.disasm =
                     AddDisassembly(s2.disasm, a, Join(RefFields(field, 3, <<>>)))]
    IN  [st |-> s3, err |-> NoErr]

\* the loop over the lines from line i on
RECURSIVE LoadLines(_, _, _, _)
LoadLines(m, st, line, i) ==
    IF i > Len(line) THEN [st |-> st, err |-> NoErr]
    ELSE LET r == LoadLine(m, st, line[i], i)
         IN  IF ~r.err.nil THEN r ELSE LoadLines(m, r.st, line, i + 1)

loadDump(m, st, f) ==
    IF ~f.exists THEN [st |-> st, err |-> Errorf(0, "no such file or directory")]
    ELSE LoadLines(m, st, Split(f.data), 1)

-----------------------------------------------------------------------------
(* Specification SpecLoad: main creates the memory and loads a dump file *)

\* number of lines of a dump file
MaxLines == 3

\* a symbol: 00000000 <m>:
LineSymbol ==
    <<"0", "0", "0", "0", "0", "0", "0", "0", " ", "<", "m", ">", ":">>

\* a 32-bit instruction:    0:\t00000013 \tnop
LineIns32 ==
    <<" ", " ", " ", "0", ":", "\t", "0", "0", "0", "0", "0", "0", "1", "3", " ", "\t", "n", "o", "p">>

\* a 16-bit instruction with a symbol reference:    4:\t0001 \tj 0 <m>
LineIns16 ==
    <<" ", " ", " ", "4", ":", "\t", "0", "0", "0", "1", " ", "\t", "j", " ", "0", " ", "<", "m", ">">>

\* an instruction field of 2 digits:    6:\t13 \tnop
LineBadLength ==
    <<" ", " ", " ", "6", ":", "\t", "1", "3", " ", "\t", "n", "o", "p">>

\* a malformed address: zz: 0001 nop
LineBadAdr ==
    <<"z", "z", ":", " ", "0", "0", "0", "1", " ", "n", "o", "p">>

\* a malformed instruction word:    8:\t0000001g \tnop
LineBadIns ==
    <<" ", " ", " ", "8", ":", "\t", "0", "0", "0", "0", "0", "0", "1", "g", " ", "\t", "n", "o", "p">>

Lines == { LineSymbol, LineIns32, LineIns16, LineBadLength, LineBadAdr, LineBadIns }

\* the lines of a file, each ended by a newline
RECURSIVE Unlines(_)
Unlines(ls) == IF ls = <<>> THEN <<>> ELSE Head(ls) \o <<"\n">> \o Unlines(Tail(ls))

Files ==
    {NoFile} \cup
    { [exists |-> TRUE, data |-> Unlines(ls)] :
          ls \in UNION { [1..n -> Lines] : n \in 0..MaxLines } }

InitLoad ==
    /\ file \in Files
    /\ seg = NewChunk(0, 16, AttrRWX)
    /\ symbols = NoSymbols
    /\ disasm = EmptyMap
    /\ err = NoErr
    /\ pc = "load"
    /\ op = NoOp /\ prev = NoOp /\ pre = seg.mem /\ nops = 0
    /\ IdleDa

\* main calls loadDump and exits with status 1 when it returns an error
LoadDump ==
    /\ pc = "load"
    /\ LET r == loadDump(seg, [mem |-> seg.mem, symbols |-> symbols, disasm |-> disasm], file)
       IN  /\ seg' = [seg EXCEPT !.mem = r.st.mem]
           /\ symbols' = r.st.symbols
           /\ disasm' = r.st.disasm
           /\ err' = r.err
           /\ pc' = IF r.err.nil THEN "loaded" ELSE "exit1"
    /\ pre' = seg.mem
    /\ UNCHANGED <<op, prev, nops, isa, adr, da, file>>

SpecLoad == InitLoad /\ [][LoadDump]_vars

-----------------------------------------------------------------------------
(* Vocabulary of the properties *)

DataReads  == {"Rd8", "Rd16", "Rd32", "Rd64"}
DataWrites == {"Wr8", "Wr16", "Wr32", "Wr64"}

\* the attribute mask grants the permission whose bit is `bit'
Grants(attr, bit) == (attr \div bit) % 2 = 1

\* the Exception mask that reports exactly the conditions of the set S
MaskOf(S) ==
      (IF "Align" \in S THEN ExAlign ELSE 0)
    + (IF "Read"  \in S THEN ExRead  ELSE 0)
    + (IF "Write" \in S THEN ExWrite ELSE 0)
    + (IF "Empty" \in S THEN ExEmpty ELSE 0)
    + (IF "Exec"  \in S THEN ExExec  ELSE 0)

\* the conditions a data access o to segment m violates
ViolatedData(o, m) ==
         (IF o.adr % Width(o.name) # 0 THEN {"Align"} ELSE {})
    \cup (IF o.name \in DataReads /\ ~Grants(m.attr, AttrR) THEN {"Read"} ELSE {})
    \cup (IF o.name \in DataWrites /\ ~Grants(m.attr, AttrW) THEN {"Write"} ELSE {})
    \cup (IF m.kind = "Empty" THEN {"Empty"} ELSE {})

\* the conditions an instruction fetch o from segment m violates
ViolatedIns(o, m) ==
         (IF o.adr % 2 = 1 THEN {"Align"} ELSE {})
    \cup (IF ~Grants(m.attr, AttrR) THEN {"Read"} ELSE {})
    \cup (IF ~Grants(m.attr, AttrX) THEN {"Exec"} ELSE {})
    \cup (IF m.kind = "Empty" THEN {"Empty"} ELSE {})

\* the n bytes from address a on lie inside chunk m (no wrap-around)
SpanInside(m, a, n) == a >= m.start /\ a + n - 1 <= m.end /\ m.start <= m.end

\* 1-based index in m.mem of the byte at address a
Idx(m, a) == a - m.start + 1

-----------------------------------------------------------------------------
(* C1: every data read and write that returns, on either variant, for      *)
(* every attribute mask and address tried, returns as Exception the OR of  *)
(* exactly the violated conditions: Align iff adr mod width # 0, Read iff  *)
(* a read without R, Write iff a write without W, Empty iff the segment is *)
(* an Empty region; never Exec.                                            *)
C1_FaultComposition ==
    (op.name \in DataReads \cup DataWrites /\ ~op.panic)
        => op.ex = MaskOf(ViolatedData(op, seg))

\* an unaligned write to a read-only Empty region reports Align|Write|Empty,
\* and a Chunk write without W reports Write alone
C1_Witness ==
    \/ /\ op.name = "Wr32" /\ seg.kind = "Empty" /\ ~Grants(seg.attr, AttrW)
       /\ op.adr % 4 # 0 /\ op.ex = ExAlign + ExWrite + ExEmpty
    \/ /\ op.name = "Wr32" /\ seg.kind = "Chunk" /\ seg.attr = AttrR
       /\ op.adr % 4 = 0 /\ ~op.panic /\ op.ex = ExWrite

(* C2 (as claimed): any read that returns a non-zero Exception returns the *)
(* all-ones value of its width, whatever the stored bytes.                 *)
C2_SentinelOnFault ==
    (op.name \in DataReads \cup {"RdIns"} /\ ~op.panic /\ op.ex # 0)
        => op.ret = MaxUint(Width(op.name))

(* C3 (as claimed): every read, write and instruction fetch returns        *)
(* normally; none aborts the caller.                                       *)
C3_NeverAborts == ~op.panic

(* C4: an RdIns that returns reports Align iff adr is odd, Exec iff the    *)
(* attribute lacks X, Read iff it lacks R, Empty iff the segment is Empty, *)
(* and nothing else; on a Chunk with R and X at an even address the mask   *)
(* is 0 and the word is the 4 bytes at adr, least significant first.       *)
C4_RdIns ==
    (op.name = "RdIns" /\ ~op.panic) =>
        /\ op.ex = MaskOf(ViolatedIns(op, seg))
        /\ (seg.kind = "Chunk" /\ Grants(seg.attr, AttrR) /\ Grants(seg.attr, AttrX)
                /\ op.adr % 2 = 0)
             => /\ op.ex = 0
                /\ \A i \in 0..3 : op.ret[4 - i] = seg.mem[Idx(seg, op.adr) + i]

\* a fetch at adr mod 4 = 2 from an RX chunk, of a word that was stored there
C4_Witness ==
    /\ op.name = "RdIns" /\ ~op.panic /\ seg.kind = "Chunk"
    /\ op.adr % 4 = 2 /\ op.ex = 0 /\ op.ret # MaxUint(4)

(* C5: a WrN whose span lies inside a Chunk stores the value little-endian *)
(* even when the mask returned is non-zero, changes no byte outside the    *)
(* span, and a following RdN at the same address returns the value; a      *)
(* write to an Empty region changes nothing; on the chunk of size 0x20 at  *)
(* 0 with RX, Wr32(0, 0x13) then RdIns(0) returns 0x13 with Exception 0.   *)
C5_WriteThrough ==
    /\ (op.name \in DataWrites /\ seg.kind = "Chunk"
            /\ SpanInside(seg, op.adr, Width(op.name)))
         => /\ ~op.panic
            /\ Len(seg.mem) = Len(pre)
            /\ \A i \in 0..(Width(op.name) - 1) :
                   seg.mem[Idx(seg, op.adr) + i] = op.val[Width(op.name) - i]
            /\ \A j \in 1..Len(pre) :
                   (j < Idx(seg, op.adr) \/ j >= Idx(seg, op.adr) + Width(op.name))
                       => seg.mem[j] = pre[j]
    /\ (prev.name \in DataWrites /\ seg.kind = "Chunk"
            /\ SpanInside(seg, prev.adr, Width(prev.name))
            /\ op.name \in DataReads /\ Width(op.name) = Width(prev.name)
            /\ op.adr = prev.adr)
         => (~op.panic /\ op.ret = prev.val)
    /\ (op.name \in DataWrites /\ seg.kind = "Empty")
         => (~op.panic /\ seg.mem = pre /\ seg.mem = <<>>)
    /\ (seg.kind = "Chunk" /\ seg.start = 0 /\ Len(seg.mem) = 32 /\ seg.attr = AttrRX
            /\ prev.name = "Wr32" /\ prev.adr = 0 /\ prev.val = <<0, 0, 0, 19>>
            /\ op.name = "RdIns" /\ op.adr = 0)
         => (~op.panic /\ op.ret = <<0, 0, 0, 19>> /\ op.ex = 0)

\* the scenario: the write faulted (no W) and the fetch still sees the word
C5_Witness ==
    /\ seg.kind = "Chunk" /\ seg.start = 0 /\ Len(seg.mem) = 32 /\ seg.attr = AttrRX
    /\ prev.name = "Wr32" /\ prev.adr = 0 /\ prev.val = <<0, 0, 0, 19>>
    /\ prev.ex = ExWrite
    /\ op.name = "RdIns" /\ op.adr = 0 /\ op.ret = <<0, 0, 0, 19>> /\ op.ex = 0

(* C10 (as claimed): a segment built with (start, size) has start <= end,  *)
(* and In(adr, size') is true iff size' >= 1 and every address of          *)
(* adr .. adr+size'-1 lies in [start, end], for all unsigned values,       *)
(* size = 0, size' = 0 and wrapping sums included.                         *)
C10_InContainment ==
    (op.name = "In") =>
        /\ seg.start <= seg.end
        /\ op.ret[1] <=>
              /\ op.val[1] >= 1
              /\ \A k \in 0..(op.val[1] - 1) :
                     /\ seg.start <= AddU(op.adr, k)
                     /\ AddU(op.adr, k) <= seg.end

-----------------------------------------------------------------------------
(* Vocabulary of the decoder properties *)

\* bit k of byte b
Bit(b, k) == (b \div Pow2(k)) % 2

\* word ins matches entry e: ins agrees with e.val on every bit of e.mask,
\* and e.val has no bit outside the mask
Matches(e, ins) ==
    \A i \in 1..4, k \in 0..7 :
        IF Bit(e.mask[i], k) = 1 THEN Bit(ins[i], k) = Bit(e.val[i], k)
        ELSE Bit(e.val[i], k) = 0

\* indices of the entries of the active table that match the word fetched
Matching == { i \in 1..Len(isa) : Matches(isa[i], da.ins) }

FirstMatch == CHOOSE i \in Matching : \A j \in Matching : i <= j

\* a 16-bit (compressed) encoding: its two low bits are fixed and not 11
Is16(e) == Bit(e.mask[4], 0) = 1 /\ Bit(e.mask[4], 1) = 1 /\ e.val[4] % 4 # 3

\* the minimum instruction width of a table
MinWidth(tbl) == IF \E i \in 1..Len(tbl) : Is16(tbl[i]) THEN 2 ELSE 4

Disassembled == da.ins # <<>>

(* C6 (as claimed): when the fetched word matches no entry, Disassemble    *)
(* returns "?" as the instruction text and the minimum instruction width   *)
(* as length, and the driver's loop stops there.                           *)
C6_UnknownMarker ==
    (Disassembled /\ Matching = {}) =>
        /\ da.Instruction = "?"
        /\ da.N = MinWidth(isa)
        /\ pc = "exit"

(* C7 (as claimed): the length N is 2 when the matched entry is a 16-bit   *)
(* encoding and 4 when it is a 32-bit encoding.                            *)
C7_LengthByEntry ==
    (Disassembled /\ Matching # {}) =>
        da.N = (IF Is16(isa[FirstMatch]) THEN 2 ELSE 4)

(* C8: when at least one entry matches, Disassemble invokes the decode     *)
(* function of exactly one entry, the matching entry of smallest index,    *)
(* with that entry's mnemonic, the address and the word; its result is the *)
(* instruction text and comment, whatever matches later in the table.      *)
C8_FirstMatch ==
    (Disassembled /\ Matching # {}) =>
        /\ da.calls = << [i |-> FirstMatch, mneumonic |-> isa[FirstMatch].mneumonic,
                          adr |-> da.adr, ins |-> da.ins] >>
        /\ da.Instruction = isa[FirstMatch].mneumonic
        /\ da.Comment = "TODO"

\* two entries match and the first of them is not the table's first entry
\* in pattern order: the later, more specific entry is passed over
C8_Witness ==
    /\ Disassembled /\ Cardinality(Matching) >= 2
    /\ da.calls # <<>> /\ da.calls[1].i = FirstMatch
    /\ da.Instruction = "addi" /\ isa[2].mneumonic = "nop"

-----------------------------------------------------------------------------
(* C9 (as claimed): when loadDump returns an error, the memory contents,   *)
(* the symbol table and the reference-disassembly map are exactly as they  *)
(* were before the call.                                                   *)
C9_LoadAtomic ==
    (pc = "exit1") =>
        /\ seg.mem = pre
        /\ symbols = NoSymbols
        /\ disasm = EmptyMap

=============================================================================
